---------------------------- MODULE Spec2Model ----------------------------
(***************************************************************************)
(* A model of src/app.py (WeidaPicks): the week calculator, the moneyline  *)
(* converter, the odds aggregation of fetch_all_odds and the Streamlit     *)
(* script that caches its result in st.session_state.                      *)
(*                                                                         *)
(* Conventions                                                             *)
(*   - An absolute instant is a number of seconds since                    *)
(*     2025-09-02T00:00:00Z; a wall-clock (naive) time of America/Chicago  *)
(*     is a number of seconds since 2025-09-02 00:00:00 local.             *)
(*   - Python's None / pandas' NaN is the empty tuple <<>>, a present      *)
(*     value v is the one-element tuple <<v>>.                             *)
(*   - Spread points are in tenths of a point, moneyline points in         *)
(*     hundredths (two decimals after round(..., 2)).                      *)
(***************************************************************************)
EXTENDS Integers, Sequences, FiniteSets, TLC

VARIABLES
    week_arg,        \* get_week_bounds / filter_week: the week_number argument
    commence_time,   \* a game's kickoff instant (UTC)
    bounds,          \* value returned by get_week_bounds(week_arg), or <<>>
    week_number,     \* week number computed for commence_time, or <<>>
    selected,        \* <<b>>: whether filter_week(df, week_arg) returns the game
    odds,            \* moneyline_to_points: the argument (<<>> is None)
    points,          \* moneyline_to_points: the outcome, or "pending"
    odds_data,       \* fetch_all_odds: the JSON body of the response
    fetched,         \* fetch_all_odds: its outcome for odds_data, or <<>>
    session_state,   \* st.session_state: <<>> or <<all_odds>>
    week_selected,   \* the selectbox value
    run              \* what the last script run did and displayed

vars == <<week_arg, commence_time, bounds, week_number, selected, odds, points,
          odds_data, fetched, session_state, week_selected, run>>

None == <<>>

Some(v) == <<v>>

Max(S) == CHOOSE x \in S : \A y \in S : y <= x

-----------------------------------------------------------------------------
(* Time: datetime, timedelta and ZoneInfo("America/Chicago")               *)

Minute == 60

Hour == 60 * 60

Day == 24 * 60 * 60

\* The UTC-offset changes of America/Chicago around the 2025 season
\* (2024-11-03, 2025-03-09, 2025-11-02, 2026-03-08, 2026-11-01, 2027-03-14),
\* each at 2:00 local time, as hours since 2025-09-02T00:00Z.
chicago_transitions ==
    << [at |-> -7265 * Hour, before |-> -5 * Hour, after |-> -6 * Hour],
       [at |-> -4240 * Hour, before |-> -6 * Hour, after |-> -5 * Hour],
       [at |->  1471 * Hour, before |-> -5 * Hour, after |-> -6 * Hour],
       [at |->  4496 * Hour, before |-> -6 * Hour, after |-> -5 * Hour],
       [at |-> 10207 * Hour, before |-> -5 * Hour, after |-> -6 * Hour],
       [at |-> 13400 * Hour, before |-> -6 * Hour, after |-> -5 * Hour] >>

\* tzinfo.utcoffset for an absolute instant.
utcoffset(utc) ==
    LET past == {i \in DOMAIN chicago_transitions : chicago_transitions[i].at <= utc}
    IN  IF past = {} THEN chicago_transitions[1].before
        ELSE chicago_transitions[Max(past)].after

\* datetime.astimezone(ct): the wall-clock time of an absolute instant.
astimezone_ct(utc) == utc + utcoffset(utc)

\* datetime.astimezone(timezone.utc) of a wall-clock time with fold = 0: a
\* wall time is read with the offset in force before a transition until the
\* later of the two local readings of the transition instant.
astimezone_utc(wall) ==
    LET local(i) == chicago_transitions[i].at
                    + (IF chicago_transitions[i].before > chicago_transitions[i].after
                       THEN chicago_transitions[i].before
                       ELSE chicago_transitions[i].after)
        past == {i \in DOMAIN chicago_transitions : local(i) <= wall}
        off  == IF past = {} THEN chicago_transitions[1].before
                ELSE chicago_transitions[Max(past)].after
    IN  wall - off

\* datetime(2025, 9, 2, 0, 1, tzinfo=ct), as a wall-clock time.
season_start_ct == 0 * Hour + 1 * Minute

\* timedelta(days=6, hours=23, minutes=58, seconds=59)
week_span == 6 * Day + 23 * Hour + 58 * Minute + 59

\* get_week_bounds with both timedeltas added to the UTC instant of the anchor
\* (absolute-time arithmetic) instead of to its wall-clock time.
get_week_bounds_utc_arithmetic(w) ==
    LET week_start_utc == astimezone_utc(season_start_ct) + (w - 1) * 7 * Day
    IN  <<week_start_utc, week_start_utc + week_span>>

\* Aware datetime + timedelta is wall-clock arithmetic; the two results are
\* then converted to UTC.
get_week_bounds(w) ==
    LET week_start_ct == season_start_ct + (w - 1) * 7 * Day
        week_end_ct   == week_start_ct + week_span
    IN  <<astimezone_utc(week_start_ct), astimezone_utc(week_end_ct)>>

\* The week number with the difference taken between absolute instants
\* instead of wall-clock fields.
week_number_of_utc_delta(game_time_utc) ==
    LET delta_days == (game_time_utc - astimezone_utc(season_start_ct)) \div Day
    IN  (delta_days \div 7) + 1

\* Lines 52-57: both datetimes carry the same tzinfo object, so their
\* difference is the difference of the wall-clock fields; timedelta.days and
\* // round towards minus infinity.
week_number_of(game_time_utc) ==
    LET game_time_ct == astimezone_ct(game_time_utc)
        delta_days   == (game_time_ct - season_start_ct) \div Day
    IN  (delta_days \div 7) + 1

\* strftime("%A %I:%M %p") of a wall-clock time: the date and the seconds are
\* dropped.  The string "<day> <hh>:<mm> <AM|PM>" is kept as its four parts.
DayNames == <<"Tuesday", "Wednesday", "Thursday", "Friday", "Saturday", "Sunday", "Monday">>

strftime(game_time_ct) ==
    LET H == (game_time_ct % Day) \div Hour
    IN  [day |-> DayNames[((game_time_ct \div Day) % 7) + 1],
         hh  |-> IF H % 12 = 0 THEN 12 ELSE H % 12,
         mm  |-> (game_time_ct % Hour) \div Minute,
         ap  |-> IF H < 12 THEN "AM" ELSE "PM"]

\* Lexicographic order of weekday names.
DayRank(d) ==
    CASE d = "Friday" -> 1 [] d = "Monday" -> 2 [] d = "Saturday" -> 3
      [] d = "Sunday" -> 4 [] d = "Thursday" -> 5 [] d = "Tuesday" -> 6
      [] d = "Wednesday" -> 7

\* Python's < on two formatted strings: character by character, so by day
\* name, then the zero-padded hour, the minute, and "AM" before "PM".
str_lt(a, b) ==
    LET ka == <<DayRank(a.day), a.hh, a.mm, IF a.ap = "AM" THEN 0 ELSE 1>>
        kb == <<DayRank(b.day), b.hh, b.mm, IF b.ap = "AM" THEN 0 ELSE 1>>
    IN  \E i \in 1..4 : ka[i] < kb[i] /\ \A j \in 1..(i - 1) : ka[j] = kb[j]

\* filter_week comparing with the following week's number.
filter_week_next(df, w) ==
    SelectSeq(df, LAMBDA r : r.week_number = w + 1)

\* filter_week: df[df["week_number"] == week_number]
filter_week(df, w) ==
    SelectSeq(df, LAMBDA r : r.week_number = w)

-----------------------------------------------------------------------------
(* moneyline_to_points                                                     *)

\* round(10 / n, 2) for an integer n > 0, in hundredths.  Python rounds the
\* binary float correctly: an exact tie (1000 / n = k + 1/2, n in {16, 80,
\* 400, 2000}) goes to the even neighbour when 10 / n is exactly
\* representable (n = 16, 80) and up otherwise, the float 10 / n being just
\* above the tie.
round_10_over(n) ==
    LET q == 1000 \div n
        r == 1000 % n
    IN  IF 2 * r < n THEN q
        ELSE IF 2 * r > n THEN q + 1
        ELSE IF n \in {16, 80} THEN (IF q % 2 = 0 THEN q ELSE q + 1)
        ELSE q + 1

\* Lines 17-23.  The outcome is the returned value (in hundredths) or the
\* exception raised: -10 / 0 raises ZeroDivisionError.
moneyline_to_points(price) ==
    IF price = None THEN [raised |-> "none", value |-> None]
    ELSE IF price[1] > 0 THEN [raised |-> "none", value |-> Some(price[1] * 10)]
    ELSE IF price[1] = 0 THEN [raised |-> "ZeroDivisionError", value |-> None]
    ELSE [raised |-> "none", value |-> Some(round_10_over(-price[1]))]

-----------------------------------------------------------------------------
(* fetch_all_odds                                                          *)

Min(S) == CHOOSE x \in S : \A y \in S : x <= y

\* Team names of the payloads, in lexicographic order.
Teams == <<"Bears", "Chiefs", "Lions", "Packers">>

\* Python's < on two team names.
name_lt(a, b) ==
    (CHOOSE i \in DOMAIN Teams : Teams[i] = a) < (CHOOSE i \in DOMAIN Teams : Teams[i] = b)

\* next((x for x in xs if x["key"] in keys), None)
first_with_key(xs, keys) ==
    LET hits == {i \in DOMAIN xs : xs[i].key \in keys}
    IN  IF hits = {} THEN None ELSE Some(xs[Min(hits)])

\* Lines 66-86: the rows (none or one) the game adds to spreads_list, or the
\* TypeError of comparing a missing point (None) with <.
spreads_of(game, fanduel, wk, game_time_fmt) ==
    LET spread_market == first_with_key(fanduel.markets, {"spreads"})
        outcomes == IF spread_market = None THEN <<>> ELSE spread_market[1].outcomes
    IN  IF spread_market = None \/ Len(outcomes) # 2
        THEN [raised |-> "none", rows |-> <<>>]
        ELSE IF outcomes[1].point = None \/ outcomes[2].point = None
        THEN [raised |-> "TypeError", rows |-> <<>>]
        ELSE LET t1 == outcomes[1]
                 t2 == outcomes[2]
                 favorite == IF t1.point[1] < t2.point[1] THEN Some(t1)
                             ELSE IF t2.point[1] < t1.point[1] THEN Some(t2)
                             ELSE None
                 underdog == IF t1.point[1] < t2.point[1] THEN Some(t2)
                             ELSE IF t2.point[1] < t1.point[1] THEN Some(t1)
                             ELSE None
             IN  [raised |-> "none",
                  rows |-> << [week_number     |-> wk,
                               home_team       |-> game.home_team,
                               commence_time   |-> game_time_fmt,
                               favorite_team   |-> IF favorite = None THEN None
                                                   ELSE Some(favorite[1].name),
                               underdog_team   |-> IF underdog = None THEN None
                                                   ELSE Some(underdog[1].name),
                               favorite_spread |-> IF favorite = None THEN None
                                                   ELSE favorite[1].point,
                               underdog_spread |-> IF underdog = None THEN None
                                                   ELSE underdog[1].point] >>]

\* Lines 89-105: the rows (none or one) the game adds to moneyline_list, or
\* the exception moneyline_to_points raises.  ml_outcomes is a dict: a name's
\* last price wins, and away_team is the first name that is not the home team.
moneyline_of(game, fanduel, wk, game_time_fmt) ==
    LET moneyline_market == first_with_key(fanduel.markets, {"h2h", "moneyline"})
        outs == IF moneyline_market = None THEN <<>> ELSE moneyline_market[1].outcomes
        get(name) == LET hits == {i \in DOMAIN outs : outs[i].name = name}
                     IN  IF hits = {} THEN None ELSE Some(outs[Max(hits)].price)
        others == {i \in DOMAIN outs : outs[i].name # game.home_team}
        away_team == IF others = {} THEN None ELSE Some(outs[Min(others)].name)
        ml_home == get(game.home_team)
        ml_away == IF away_team = None THEN None ELSE get(away_team[1])
        home_points == moneyline_to_points(ml_home)
        away_points == moneyline_to_points(ml_away)
    IN  IF moneyline_market = None THEN [raised |-> "none", rows |-> <<>>]
        ELSE IF home_points.raised # "none" THEN [raised |-> home_points.raised, rows |-> <<>>]
        ELSE IF away_points.raised # "none" THEN [raised |-> away_points.raised, rows |-> <<>>]
        ELSE [raised |-> "none",
              rows |-> << [week_number           |-> wk,
                           home_team             |-> game.home_team,
                           away_team             |-> away_team,
                           commence_time         |-> game_time_fmt,
                           moneyline_home        |-> ml_home,
                           moneyline_away        |-> ml_away,
                           moneyline_home_points |-> home_points.value,
                           moneyline_away_points |-> away_points.value] >>]

\* Lines 51-105, one iteration of the loop over odds_data.
game_rows(game) ==
    LET game_time_ct  == astimezone_ct(game.commence_time)
        game_time_fmt == strftime(game_time_ct)
        wk            == week_number_of(game.commence_time)
        fanduel       == first_with_key(game.bookmakers, {"fanduel"})
    IN  IF fanduel = None
        THEN [raised |-> "none", spreads |-> <<>>, moneyline |-> <<>>]
        ELSE LET sp == spreads_of(game, fanduel[1], wk, game_time_fmt)
                 ml == moneyline_of(game, fanduel[1], wk, game_time_fmt)
             IN  IF sp.raised # "none"
                 THEN [raised |-> sp.raised, spreads |-> <<>>, moneyline |-> <<>>]
                 ELSE [raised |-> ml.raised, spreads |-> sp.rows, moneyline |-> ml.rows]

RECURSIVE concat_rows(_, _, _)
concat_rows(per_game, column, i) ==
    IF i > Len(per_game) THEN <<>>
    ELSE per_game[i][column] \o concat_rows(per_game, column, i + 1)

\* The lists after the loop, given each game's iteration: the loop ends at
\* the first exception, which escapes fetch_all_odds.
loop_result(per_game) ==
    IF \E i \in DOMAIN per_game : per_game[i].raised # "none"
    THEN [raised    |-> per_game[Min({i \in DOMAIN per_game : per_game[i].raised # "none"})].raised,
          spreads   |-> <<>>,
          moneyline |-> <<>>]
    ELSE [raised    |-> "none",
          spreads   |-> concat_rows(per_game, "spreads", 1),
          moneyline |-> concat_rows(per_game, "moneyline", 1)]

\* Lines 48-105: the loop over odds_data.
game_loop(data) == loop_result([i \in DOMAIN data |-> game_rows(data[i])])

\* The join key of pd.merge: on=["week_number", "home_team", "commence_time"].
merge_key(r) == <<r.week_number, r.home_team, r.commence_time>>

\* Lexicographic order of two join keys.
key_lt(a, b) ==
    \/ a[1] < b[1]
    \/ a[1] = b[1] /\ a[2] # b[2] /\ name_lt(a[2], b[2])
    \/ a[1] = b[1] /\ a[2] = b[2] /\ str_lt(a[3], b[3])

RECURSIVE sorted_keys(_)
sorted_keys(K) ==
    IF K = {} THEN <<>>
    ELSE LET least == CHOOSE k \in K : \A j \in K \ {k} : key_lt(k, j)
         IN  <<least>> \o sorted_keys(K \ {least})

\* One row of the merged frame: the columns of a spreads row and of a
\* moneyline row with the same key; the columns of a missing side are NaN.
merged_row(k, l, r) ==
    [week_number           |-> k[1],
     home_team             |-> k[2],
     commence_time         |-> k[3],
     favorite_team         |-> IF l = None THEN None ELSE l[1].favorite_team,
     underdog_team         |-> IF l = None THEN None ELSE l[1].underdog_team,
     favorite_spread       |-> IF l = None THEN None ELSE l[1].favorite_spread,
     underdog_spread       |-> IF l = None THEN None ELSE l[1].underdog_spread,
     away_team             |-> IF r = None THEN None ELSE r[1].away_team,
     moneyline_home        |-> IF r = None THEN None ELSE r[1].moneyline_home,
     moneyline_away        |-> IF r = None THEN None ELSE r[1].moneyline_away,
     moneyline_home_points |-> IF r = None THEN None ELSE r[1].moneyline_home_points,
     moneyline_away_points |-> IF r = None THEN None ELSE r[1].moneyline_away_points]

\* The rows an outer join gives for one key: every pairing of the left rows
\* with the right rows, or the rows of the only side that has the key.
rows_of_key(k, df_spreads, df_moneyline) ==
    LET L == SelectSeq(df_spreads, LAMBDA x : merge_key(x) = k)
        R == SelectSeq(df_moneyline, LAMBDA x : merge_key(x) = k)
    IN  IF R = <<>> THEN [i \in 1..Len(L) |-> merged_row(k, Some(L[i]), None)]
        ELSE IF L = <<>> THEN [i \in 1..Len(R) |-> merged_row(k, None, Some(R[i]))]
        ELSE [i \in 1..(Len(L) * Len(R)) |->
                 merged_row(k, Some(L[((i - 1) \div Len(R)) + 1]),
                               Some(R[((i - 1) % Len(R)) + 1]))]

RECURSIVE rows_of_keys(_, _, _)
rows_of_keys(ks, df_spreads, df_moneyline) ==
    IF ks = <<>> THEN <<>>
    ELSE rows_of_key(Head(ks), df_spreads, df_moneyline)
         \o rows_of_keys(Tail(ks), df_spreads, df_moneyline)

\* Lines 107-116: pd.merge(df_spreads, df_moneyline, on=[...], how="outer").
\* A frame built from an empty list has no columns, and merging on a column a
\* frame lacks raises KeyError; an outer join orders its keys.
merge(df_spreads, df_moneyline) ==
    IF df_spreads = <<>> \/ df_moneyline = <<>>
    THEN [raised |-> "KeyError", df |-> <<>>]
    ELSE LET K == {merge_key(df_spreads[i]) : i \in DOMAIN df_spreads}
                  \cup {merge_key(df_moneyline[i]) : i \in DOMAIN df_moneyline}
         IN  [raised |-> "none",
              df |-> rows_of_keys(sorted_keys(K), df_spreads, df_moneyline)]

\* Lines 122-126: the index of the first row of
\* week_df.sort_values(by=["favorite_spread", "commence_time"]) (a stable
\* sort: the least key, the earliest row among equal keys); 0 when week_df,
\* the week's rows with a favorite_spread, is empty.
best_fav(df, week) ==
    LET week_df == {i \in DOMAIN df : df[i].week_number = week /\ df[i].favorite_spread # None}
        before(i, j) == \/ df[i].favorite_spread[1] < df[j].favorite_spread[1]
                        \/ /\ df[i].favorite_spread[1] = df[j].favorite_spread[1]
                           /\ str_lt(df[i].commence_time, df[j].commence_time)
    IN  IF week_df = {} THEN 0
        ELSE CHOOSE i \in week_df :
                \A j \in week_df \ {i} : before(i, j) \/ (~before(j, i) /\ i < j)

\* Lines 119-130: the autopick column.
autopick_of(df, i) ==
    LET b == best_fav(df, df[i].week_number)
    IN  IF b # 0 /\ df[i].favorite_team = df[b].favorite_team
                 /\ df[i].commence_time = df[b].commence_time
        THEN "Yes" ELSE "No"

with_autopick(df) ==
    [i \in DOMAIN df |->
        [c \in DOMAIN df[i] \cup {"autopick"} |->
            IF c = "autopick" THEN autopick_of(df, i) ELSE df[i][c]]]

\* Lines 118-132: the returned frame, given the outcome of the merge.
frame_of(m) ==
    IF m.raised # "none" THEN [raised |-> m.raised, error |-> FALSE, df |-> <<>>]
    ELSE [raised |-> "none", error |-> FALSE, df |-> with_autopick(m.df)]

\* Lines 107-132, given the outcome of the loop.
aggregate(lists) ==
    IF lists.raised # "none" THEN [raised |-> lists.raised, error |-> FALSE, df |-> <<>>]
    ELSE frame_of(merge(lists.spreads, lists.moneyline))

\* fetch_all_odds, as a function of the response: error is whether st.error
\* was called, raised the exception that escapes ("none" when it returns),
\* df the rows of the returned frame (empty for pd.DataFrame()).
fetch_all_odds(status_code, body) ==
    IF status_code # 200 THEN [raised |-> "none", error |-> TRUE, df |-> <<>>]
    ELSE IF body = <<>> THEN [raised |-> "none", error |-> FALSE, df |-> <<>>]
    ELSE aggregate(game_loop(body))

-----------------------------------------------------------------------------
(* The Streamlit script, lines 141-162                                     *)

\* Lines 153-162: what the script displays for the cached frame and the
\* selected week.
display(state, week) ==
    IF state = None \/ state[1] = <<>>
    THEN [message |-> "info", shown |-> <<>>]
    ELSE LET df == filter_week(state[1], week)
         IN  IF df = <<>> THEN [message |-> "warning", shown |-> <<>>]
             ELSE [message |-> "table", shown |-> df]

\* Lines 148-162 of a run in which the button was pressed, given what
\* fetch_all_odds did: the new session state and what the run showed.  An
\* exception escaping fetch_all_odds ends the run before the assignment.
after_fetch(status_code, r, state, week) ==
    IF r.raised # "none"
    THEN [state |-> state,
          run |-> [clicked |-> TRUE, status_code |-> status_code, error |-> FALSE,
                   raised |-> r.raised, message |-> "exception", shown |-> <<>>]]
    ELSE [state |-> Some(r.df),
          run |-> [clicked |-> TRUE, status_code |-> status_code,
                   error |-> r.error, raised |-> "none",
                   message |-> display(Some(r.df), week).message,
                   shown |-> display(Some(r.df), week).shown]]

\* One run of the script after a click on "Refresh Odds" (lines 147-162).
refresh_run(status_code, body, state, week) ==
    after_fetch(status_code, fetch_all_odds(status_code, body), state, week)

\* One run of the script after a change of the selectbox: the button is not
\* pressed, so line 148 is skipped.
select_run(state, week) ==
    [clicked |-> FALSE, status_code |-> 0, error |-> FALSE, raised |-> "none",
     message |-> display(state, week).message, shown |-> display(state, week).shown]

\* list(range(1, 19)): the weeks of the selectbox.
LastWeek == 18

-----------------------------------------------------------------------------
(* Inputs: the payloads of the odds provider                               *)

\* Kickoffs (UTC): Sunday 2025-09-07 12:00 and 13:00 CDT, Monday 2025-09-08
\* 19:15 CDT (all week 1), Sunday 2025-09-14 13:00 CDT (week 2).
Kickoffs == {5 * Day + 17 * Hour, 5 * Day + 18 * Hour,
             7 * Day + 15 * Minute, 12 * Day + 18 * Hour}

Matchups == {<<"Bears", "Lions">>, <<"Packers", "Chiefs">>}

\* Spreads of the home team, in tenths of a point (0: a pick'em).
HomePoints == {-70, -35, 0, 70}

spread_outcome(name, point) == [name |-> name, price |-> -110, point |-> point]

h2h_outcome(name, price) == [name |-> name, price |-> price]

spreads_market(home, away, home_point, swap) ==
    [key |-> "spreads",
     outcomes |-> IF swap
                  THEN <<spread_outcome(away, Some(-home_point)), spread_outcome(home, Some(home_point))>>
                  ELSE <<spread_outcome(home, Some(home_point)), spread_outcome(away, Some(-home_point))>>]

h2h_market(home, away, home_price, away_price) ==
    [key |-> "h2h", outcomes |-> <<h2h_outcome(home, home_price), h2h_outcome(away, away_price)>>]

game_of(kick, home, bookmakers) ==
    [commence_time |-> kick, home_team |-> home, bookmakers |-> bookmakers]

\* A game FanDuel quotes in both markets.
full_game(kick, m, home_point, swap) ==
    game_of(kick, m[1],
            << [key |-> "draftkings",
                markets |-> <<spreads_market(m[1], m[2], 10, FALSE)>>],
               [key |-> "fanduel",
                markets |-> <<spreads_market(m[1], m[2], home_point, swap),
                              h2h_market(m[1], m[2],
                                         IF home_point < 0 THEN -150 ELSE 130,
                                         IF home_point < 0 THEN 130 ELSE -150)>>] >>)

FullGames ==
    {full_game(k, m, hp, sw) : k \in Kickoffs, m \in Matchups, hp \in HomePoints, sw \in BOOLEAN}

\* Games with gaps: no bookmakers, no FanDuel entry, one market only, a
\* spread market with one outcome or with an outcome lacking its point, a
\* moneyline market naming one team only, a moneyline price of 0.
SparseGames ==
    LET k == 5 * Day + 18 * Hour
        h == "Bears"
        a == "Lions"
        fd(markets) == <<[key |-> "fanduel", markets |-> markets]>>
    IN  { game_of(k, h, <<>>),
          game_of(k, h, <<[key |-> "draftkings",
                           markets |-> <<spreads_market(h, a, -70, FALSE)>>]>>),
          game_of(k, h, fd(<<>>)),
          game_of(k, h, fd(<<spreads_market(h, a, -70, FALSE)>>)),
          game_of(k, h, fd(<<spreads_market(h, a, 0, FALSE)>>)),
          game_of(k, h, fd(<<h2h_market(h, a, -150, 130)>>)),
          game_of(k, h, fd(<<[key |-> "spreads", outcomes |-> <<spread_outcome(h, Some(-70))>>],
                             h2h_market(h, a, -150, 130)>>)),
          game_of(k, h, fd(<<[key |-> "spreads",
                              outcomes |-> <<spread_outcome(h, None), spread_outcome(a, Some(70))>>],
                             h2h_market(h, a, -150, 130)>>)),
          game_of(k, h, fd(<<spreads_market(h, a, -70, FALSE),
                             [key |-> "h2h", outcomes |-> <<h2h_outcome(a, 130)>>]>>)),
          game_of(k, h, fd(<<spreads_market(h, a, -70, FALSE), h2h_market(h, a, 0, 130)>>)) }

GameSet == FullGames \cup SparseGames

\* The longest payload.
MaxGames == 2

SeqsUpTo(S, n) == UNION {[1..k -> S] : k \in 0..n}

Payloads == SeqsUpTo(GameSet, MaxGames)

\* The payloads of the script's runs: a week-1 and a week-2 game FanDuel
\* quotes in full, a pick'em, and games FanDuel does not quote or quotes in
\* one market only.
AppGames ==
    { full_game(5 * Day + 18 * Hour, <<"Bears", "Lions">>, -70, FALSE),
      full_game(12 * Day + 18 * Hour, <<"Packers", "Chiefs">>, -35, TRUE),
      full_game(7 * Day + 15 * Minute, <<"Packers", "Chiefs">>, 0, FALSE),
      game_of(5 * Day + 18 * Hour, "Bears", <<>>),
      game_of(5 * Day + 18 * Hour, "Bears",
              <<[key |-> "fanduel", markets |-> <<h2h_market("Bears", "Lions", -150, 130)>>]>>) }

AppPayloads == SeqsUpTo(AppGames, MaxGames)

-----------------------------------------------------------------------------
(* Specifications                                                          *)

\* Weeks before week 1, and the last week, given to get_week_bounds.
WeeksBefore == 2

MaxWeek == 28

Weeks == (1 - WeeksBefore)..MaxWeek

\* Kickoffs are taken around the week: whole hours from one hour before the
\* nominal start of the week, up to HoursAfter hours after it, and the seconds
\* next to each such hour (the window ends 61 s before the next one starts,
\* and midnight is 60 s before the start).
HoursAfter == 170

SecondsAround == {-61, -60, -59, -1, 0, 1}

idle_week == /\ week_arg = 0 /\ commence_time = 0 /\ bounds = None
             /\ week_number = None /\ selected = None

idle_price == odds = None /\ points = None

idle_fetch == odds_data = <<>> /\ fetched = None

idle_app == /\ session_state = None /\ week_selected = 1
            /\ run = select_run(None, 1)

week_vars == <<week_arg, commence_time, bounds, week_number, selected>>

price_vars == <<odds, points>>

fetch_vars == <<odds_data, fetched>>

app_vars == <<session_state, week_selected, run>>

(* --- the week calculator: get_week_bounds, week_number, filter_week --- *)

InitWeek ==
    /\ week_arg \in Weeks
    /\ \E h \in -1..HoursAfter, e \in SecondsAround :
          commence_time = 5 * Hour + season_start_ct + (week_arg - 1) * 7 * Day + h * Hour + e
    /\ bounds = None
    /\ week_number = None
    /\ selected = None
    /\ idle_price /\ idle_fetch /\ idle_app

GetWeekBounds ==
    /\ bounds = None
    /\ bounds' = Some(get_week_bounds(week_arg))
    /\ UNCHANGED <<week_arg, commence_time, week_number, selected>>
    /\ UNCHANGED <<price_vars, fetch_vars, app_vars>>

WeekNumber ==
    /\ week_number = None
    /\ week_number' = Some(week_number_of(commence_time))
    /\ UNCHANGED <<week_arg, commence_time, bounds, selected>>
    /\ UNCHANGED <<price_vars, fetch_vars, app_vars>>

\* filter_week on the frame holding the one game.
FilterWeek ==
    /\ week_number # None
    /\ selected = None
    /\ selected' = Some(filter_week(<<[week_number |-> week_number[1],
                                       commence_time |-> commence_time]>>, week_arg) # <<>>)
    /\ UNCHANGED <<week_arg, commence_time, bounds, week_number>>
    /\ UNCHANGED <<price_vars, fetch_vars, app_vars>>

NextWeek == GetWeekBounds \/ WeekNumber \/ FilterWeek

SpecWeek == InitWeek /\ [][NextWeek]_vars

(* --- moneyline_to_points --- *)

\* The largest absolute moneyline price.
MaxPrice == 200

InitPrice ==
    /\ odds \in {None} \cup {Some(p) : p \in (-MaxPrice)..MaxPrice}
    /\ points = None
    /\ idle_week /\ idle_fetch /\ idle_app

MoneylineToPoints ==
    /\ points = None
    /\ points' = Some(moneyline_to_points(odds))
    /\ UNCHANGED odds
    /\ UNCHANGED <<week_vars, fetch_vars, app_vars>>

NextPrice == MoneylineToPoints

SpecPrice == InitPrice /\ [][NextPrice]_vars

(* --- fetch_all_odds on a 200 response --- *)

InitFetch ==
    /\ odds_data \in Payloads
    /\ fetched = None
    /\ idle_week /\ idle_price /\ idle_app

FetchAllOdds ==
    /\ fetched = None
    /\ fetched' = Some(fetch_all_odds(200, odds_data))
    /\ UNCHANGED odds_data
    /\ UNCHANGED <<week_vars, price_vars, app_vars>>

NextFetch == FetchAllOdds

SpecFetch == InitFetch /\ [][NextFetch]_vars

(* --- the Streamlit script: refresh and week selection --- *)

Init ==
    /\ session_state = None
    /\ week_selected = 1
    /\ run = select_run(None, 1)
    /\ idle_week /\ idle_price /\ idle_fetch

\* A click on "Refresh Odds" answered by a 200 response.
RefreshOk ==
    \E body \in AppPayloads :
        \E r \in {refresh_run(200, body, session_state, week_selected)} :
            /\ session_state' = r.state
            /\ run' = r.run
            /\ UNCHANGED week_selected
            /\ UNCHANGED <<week_vars, price_vars, fetch_vars>>

\* A click on "Refresh Odds" answered by a non-200 response.
RefreshFailed ==
    \E status_code \in {401, 500} :
        \E r \in {refresh_run(status_code, <<>>, session_state, week_selected)} :
            /\ session_state' = r.state
            /\ run' = r.run
            /\ UNCHANGED week_selected
            /\ UNCHANGED <<week_vars, price_vars, fetch_vars>>

\* A change of the selectbox.
SelectWeek ==
    \E w \in 1..LastWeek :
        /\ w # week_selected
        /\ week_selected' = w
        /\ run' = select_run(session_state, w)
        /\ UNCHANGED session_state
        /\ UNCHANGED <<week_vars, price_vars, fetch_vars>>

Next == RefreshOk \/ RefreshFailed \/ SelectWeek

Spec == Init /\ [][Next]_vars

-----------------------------------------------------------------------------
(* Claims on the week calculator (SpecWeek)                                *)

week_start == bounds[1][1]

week_end == bounds[1][2]

\* C4: the week number computed for the start instant of get_week_bounds(w),
\* and for every instant from there up to (not including) its end instant,
\* is w.
C4_WeekRoundTrip ==
    (bounds # None /\ week_number # None
        /\ week_start <= commence_time /\ commence_time < week_end)
    => week_number[1] = week_arg

\* C4 witness: a kickoff strictly inside the window of a week whose window
\* holds a daylight-saving transition, after the transition, is given the
\* week's number.
C4_Witness ==
    /\ bounds # None /\ week_number # None
    /\ week_start < commence_time /\ commence_time < week_end
    /\ utcoffset(commence_time) # utcoffset(week_start)
    /\ week_number[1] = week_arg

\* C9 as stated: the game is returned for week w exactly when its kickoff
\* lies in the inclusive interval [start, end] of get_week_bounds(w).
C9_FilterEqualsWindow ==
    (bounds # None /\ selected # None)
    => (selected[1] <=> (week_start <= commence_time /\ commence_time <= week_end))

\* C9 amended: consecutive windows do not overlap but are 61 seconds apart;
\* every game whose kickoff lies in [start, end] of week w is returned for
\* week w, and a game is returned for week w exactly when its kickoff lies in
\* [start of week w, start of week w + 1).
C9_FilterEqualsHalfOpenWeek ==
    (bounds # None /\ selected # None)
    => /\ get_week_bounds(week_arg + 1)[1] - week_end = 61
       /\ (week_start <= commence_time /\ commence_time <= week_end) => selected[1]
       /\ selected[1] <=> /\ week_start <= commence_time
                          /\ commence_time < get_week_bounds(week_arg + 1)[1]

\* C9 witness: a game kicking off after the end of the window of week w and
\* before the start of the next window is returned for week w.
C9_Witness ==
    /\ bounds # None /\ selected # None
    /\ commence_time > week_end
    /\ selected[1]

\* C10 as stated: the two UTC instants of get_week_bounds(w) differ by
\* exactly 6 days 23:58:59, for every week.
C10_SpanInUtc ==
    bounds # None => week_end - week_start = week_span

\* C10 amended: the two instants differ by 6 days 23:58:59 of Chicago
\* wall-clock time; in UTC they differ by that much when the window holds no
\* daylight-saving transition, by one hour more when it holds the return to
\* standard time, and by one hour less when it holds the start of daylight
\* time.
C10_SpanInWallClock ==
    bounds # None
    => /\ astimezone_ct(week_end) - astimezone_ct(week_start) = week_span
       /\ utcoffset(week_end) = utcoffset(week_start) => week_end - week_start = week_span
       /\ utcoffset(week_end) < utcoffset(week_start) => week_end - week_start = week_span + Hour
       /\ utcoffset(week_end) > utcoffset(week_start) => week_end - week_start = week_span - Hour

\* C10 witness: the window of a week that holds the return to standard time
\* is one hour longer in UTC.
C10_Witness ==
    /\ bounds # None
    /\ utcoffset(week_end) < utcoffset(week_start)
    /\ week_end - week_start = week_span + Hour

-----------------------------------------------------------------------------
(* Claim on moneyline_to_points (SpecPrice)                                *)

\* C7 as stated: None gives None, a positive price gives price / 10, a
\* negative price gives 10 / |price| (to the nearest hundredth), and price 0
\* fails with InvalidPrice.
C7_PriceConverter ==
    points # None
    => /\ odds = None => points[1] = [raised |-> "none", value |-> None]
       /\ (odds # None /\ odds[1] > 0)
            => points[1] = [raised |-> "none", value |-> Some(10 * odds[1])]
       /\ (odds # None /\ odds[1] < 0)
            => /\ points[1].raised = "none"
               /\ points[1].value # None
               /\ 2 * (points[1].value[1] * (-odds[1]) - 1000) <= -odds[1]
               /\ 2 * (1000 - points[1].value[1] * (-odds[1])) <= -odds[1]
       /\ (odds # None /\ odds[1] = 0) => points[1].raised = "InvalidPrice"

-----------------------------------------------------------------------------
(* Claims on fetch_all_odds (SpecFetch)                                    *)

returned == fetched # None /\ fetched[1].raised = "none"

frame == fetched[1].df

\* The outcomes FanDuel quotes for the game's spread, <<>> without a quote.
quoted_spread(g) ==
    IF first_with_key(g.bookmakers, {"fanduel"}) = None THEN <<>>
    ELSE IF first_with_key(first_with_key(g.bookmakers, {"fanduel"})[1].markets, {"spreads"}) = None
    THEN <<>>
    ELSE first_with_key(first_with_key(g.bookmakers, {"fanduel"})[1].markets, {"spreads"})[1].outcomes

two_sided(g) ==
    /\ Len(quoted_spread(g)) = 2
    /\ quoted_spread(g)[1].point # None
    /\ quoted_spread(g)[2].point # None

has_favorite(g) ==
    two_sided(g) /\ quoted_spread(g)[1].point # quoted_spread(g)[2].point

\* The favorite's outcome and the underdog's, for a game that has a favorite.
favorite_of(g) ==
    IF quoted_spread(g)[1].point[1] < quoted_spread(g)[2].point[1]
    THEN quoted_spread(g)[1] ELSE quoted_spread(g)[2]

underdog_of(g) ==
    IF quoted_spread(g)[1].point[1] < quoted_spread(g)[2].point[1]
    THEN quoted_spread(g)[2] ELSE quoted_spread(g)[1]

\* The rows of the returned frame that carry the game's key.
rows_of_game(g) ==
    {i \in DOMAIN frame :
        /\ frame[i].week_number = week_number_of(g.commence_time)
        /\ frame[i].home_team = g.home_team
        /\ frame[i].commence_time = strftime(astimezone_ct(g.commence_time))}

weeks_of_frame == {frame[i].week_number : i \in DOMAIN frame}

autopicks(w) == {i \in DOMAIN frame : frame[i].week_number = w /\ frame[i].autopick = "Yes"}

with_spread(w) == {i \in DOMAIN frame : frame[i].week_number = w /\ frame[i].favorite_spread # None}

\* C2 as stated: in the returned frame, every week with a present
\* favorite_spread has exactly one autopick row, whose favorite_spread is the
\* least of the week; every other week has no autopick row.
C2_AutopickUnique ==
    returned
    => \A w \in weeks_of_frame :
          IF with_spread(w) = {} THEN autopicks(w) = {}
          ELSE /\ Cardinality(autopicks(w)) = 1
               /\ \A i \in autopicks(w) :
                     /\ frame[i].favorite_spread # None
                     /\ \A j \in with_spread(w) :
                           frame[i].favorite_spread[1] <= frame[j].favorite_spread[1]

\* The games of the payload that have a favorite, kick off in week w and
\* carry the least favorite spread of those.
tied_for_least(w) ==
    LET in_week == {a \in DOMAIN odds_data :
                      /\ has_favorite(odds_data[a])
                      /\ week_number_of(odds_data[a].commence_time) = w}
    IN  {a \in in_week : \A b \in in_week :
            favorite_of(odds_data[a]).point[1] <= favorite_of(odds_data[b]).point[1]}

\* C3 as stated: when several games of a week share the least
\* favorite_spread, the one that kicks off first is the autopick and one that
\* kicks off later is not.
C3_TieBreakByKickoff ==
    returned
    => \A a \in DOMAIN odds_data :
          \A b \in tied_for_least(week_number_of(odds_data[a].commence_time)) :
             (a \in tied_for_least(week_number_of(odds_data[a].commence_time))
                /\ odds_data[a].commence_time < odds_data[b].commence_time)
             => /\ \A i \in rows_of_game(odds_data[b]) : frame[i].autopick = "No"
                /\ \E i \in rows_of_game(odds_data[a]) : frame[i].autopick = "Yes"

\* C5 as stated: every two-outcome spread quote gives a row of the output;
\* with different points the lesser point is the favorite whatever the order
\* of the outcomes, with equal points the four fields are absent; a row with
\* both spreads has favorite_spread < underdog_spread.
C5_SpreadNormalization ==
    fetched # None
    => /\ \A a \in DOMAIN odds_data :
             two_sided(odds_data[a])
             => /\ fetched[1].raised = "none"
                /\ \E i \in rows_of_game(odds_data[a]) :
                      IF has_favorite(odds_data[a])
                      THEN /\ frame[i].favorite_team = Some(favorite_of(odds_data[a]).name)
                           /\ frame[i].favorite_spread = favorite_of(odds_data[a]).point
                           /\ frame[i].underdog_team = Some(underdog_of(odds_data[a]).name)
                           /\ frame[i].underdog_spread = underdog_of(odds_data[a]).point
                      ELSE /\ frame[i].favorite_team = None
                           /\ frame[i].underdog_team = None
                           /\ frame[i].favorite_spread = None
                           /\ frame[i].underdog_spread = None
       /\ \A i \in DOMAIN frame :
             (frame[i].favorite_spread # None /\ frame[i].underdog_spread # None)
             => frame[i].favorite_spread[1] < frame[i].underdog_spread[1]

\* C6 as stated: fetch_all_odds returns for every fetched game list, and a
\* payload in which no game has a "fanduel" bookmaker gives no row.
C6_NeverRaises ==
    fetched # None
    => /\ fetched[1].raised = "none"
       /\ (\A a \in DOMAIN odds_data :
              first_with_key(odds_data[a].bookmakers, {"fanduel"}) = None)
          => frame = <<>>

-----------------------------------------------------------------------------
(* Claims on the script (Spec)                                             *)

\* C1 as stated: a refresh whose fetch fails while a snapshot with rows is
\* cached reports the failure and leaves the snapshot, hence the rows of
\* every week, unchanged.
C1_FailedRefreshKeepsSnapshot ==
    [][ (session_state # None /\ session_state[1] # <<>>
            /\ run'.clicked /\ run'.status_code # 200)
        => /\ run'.error
           /\ session_state' = session_state
           /\ \A w \in 1..LastWeek :
                 filter_week(session_state'[1], w) = filter_week(session_state[1], w) ]_vars

\* C8 as stated: "no data loaded yet" (the info message) is shown only while
\* no refresh has completed, and a run whose refresh completed successfully
\* shows the week's rows or "no games this week" (the warning).
C8_NoDataDistinctFromNoGames ==
    /\ run.message = "info" => session_state = None
    /\ (run.clicked /\ run.status_code = 200 /\ run.raised = "none")
          => run.message \in {"table", "warning"}

=============================================================================
